---- MODULE Spec2Model ----
(***************************************************************************)
(* A model of lib/util/npm-util.js: the upward search for package.json    *)
(* (findPackageJson), the dependency check built on it (check, checkDeps, *)
(* checkDevDeps), the predicate checkPackageJson and installSyncSaveDev.   *)
(*                                                                         *)
(* A call is a sequence of steps of the one control thread (pc); the file  *)
(* system belongs to the environment, which may change it between any two  *)
(* steps.                                                                  *)
(***************************************************************************)
EXTENDS Integers, Sequences, FiniteSets, TLC

VARIABLES
    fs,         \* directory -> what <directory>/package.json is
    cwd,        \* process.cwd()
    op,         \* the function the caller invoked
    pc,         \* position of the control thread inside that call
    start,      \* path.resolve(startDir || process.cwd()) of this call
    packages,   \* check's first argument
    opt,        \* check's second argument
    dir,        \* findPackageJson's local `dir`
    pkgJson,    \* what findPackageJson returned
    fileJson,   \* check's local `fileJson`
    caught,     \* the exception bound to `e` in check's catch clause
    deps,       \* check's local `deps`
    outcome,    \* how the call ended: nothing yet, a return value or a throw
    probes,     \* shell.test("-f", ...) calls of this call, in order
    reads,      \* fs.readFileSync calls of this call, with what they gave
    logs,       \* log.info calls of this call
    execs,      \* shell.exec calls of this call
    fsTouched   \* the environment changed the file system since this call began

vars == <<fs, cwd, op, pc, start, packages, opt, dir, pkgJson, fileJson, caught,
          deps, outcome, probes, reads, logs, execs, fsTouched>>

-----------------------------------------------------------------------------
(* Bounds of the model.                                                    *)

\* Deepest directory of the tree searched by the locate specification.
MaxDepth == 2

\* Deepest directory of the tree used by the check specification.
CheckDepth == 1

-----------------------------------------------------------------------------
(* JavaScript values.                                                      *)

Undefined == [t |-> "undefined"]
Null == [t |-> "null"]
Bool(b) == [t |-> "boolean", b |-> b]
Str(s) == [t |-> "string", s |-> s]
\* The string naming the absolute path p; it is never the empty string.
PathString(p) == [t |-> "string", s |-> "<path>", path |-> p]
Arr(elems) == [t |-> "array", elems |-> elems]
Obj(props) == [t |-> "object", props |-> props]

\* {} : an object without own properties.
EmptyProps == [k \in {} |-> Undefined]

\* typeof v
TypeOf(v) ==
    CASE v.t = "undefined" -> "undefined"
      [] v.t = "boolean" -> "boolean"
      [] v.t = "string" -> "string"
      [] OTHER -> "object"          \* null, arrays and plain objects

\* ToBoolean(v), the test made by `!v`, `v && ...` and `(v) ? ... : ...`.
Truthy(v) ==
    CASE v.t = "undefined" -> FALSE
      [] v.t = "null" -> FALSE
      [] v.t = "boolean" -> v.b
      [] v.t = "string" -> v.s # ""
      [] OTHER -> TRUE

\* The own enumerable properties of v, as Object.assign and Object.keys see
\* them: an array's are its indices "0", "1", ...
OwnProps(v) ==
    CASE v.t = "object" -> v.props
      [] v.t = "array" ->
            [k \in {ToString(i - 1) : i \in 1..Len(v.elems)} |->
                v.elems[CHOOSE i \in 1..Len(v.elems) : ToString(i - 1) = k]]
      [] OTHER -> EmptyProps

\* v[k] for a v that is neither null nor undefined.
GetProp(v, k) == IF k \in DOMAIN OwnProps(v) THEN OwnProps(v)[k] ELSE Undefined

\* Object.assign(target, source) on property maps: source's entries overwrite.
ObjectAssign(target, source) ==
    [k \in DOMAIN target \cup DOMAIN OwnProps(source) |->
        IF k \in DOMAIN OwnProps(source) THEN OwnProps(source)[k] ELSE target[k]]

-----------------------------------------------------------------------------
(* Paths.  An absolute path is the sequence of its segments; the root is   *)
(* the empty sequence.                                                     *)

Root == <<>>

\* A path as a caller may write it: absolute or relative, not normalised.
Path(abs, segs) == [t |-> "path", abs |-> abs, segs |-> segs]

RECURSIVE Normalize(_, _)
\* Resolves "." and ".." of `segs` onto the absolute path `acc`; ".." at the
\* root stays at the root.
Normalize(acc, segs) ==
    IF segs = <<>> THEN acc
    ELSE LET s == Head(segs) IN
         CASE s = "." -> Normalize(acc, Tail(segs))
           [] s = ".." ->
                Normalize(IF acc = <<>> THEN acc ELSE SubSeq(acc, 1, Len(acc) - 1),
                          Tail(segs))
           [] OTHER -> Normalize(Append(acc, s), Tail(segs))

\* path.join(d, seg) for an absolute d.
PathJoin(d, seg) == Normalize(<<>>, Append(d, seg))

\* path.resolve(d, seg) for an absolute d.
PathResolve2(d, seg) == Normalize(<<>>, Append(d, seg))

\* path.resolve(startDir || process.cwd())
ResolveStart(startDir, wd) ==
    IF startDir.t = "undefined" THEN Normalize(<<>>, wd)
    ELSE IF startDir.abs THEN Normalize(<<>>, startDir.segs)
    ELSE Normalize(wd, startDir.segs)

DirName == "d"

RECURSIVE Deepest(_)
\* The directory `depth` levels below the root: /d/d/...
Deepest(depth) == IF depth = 0 THEN Root ELSE Append(Deepest(depth - 1), DirName)

\* The directories of a tree `depth` levels deep: /, /d, /d/d, ...
Dirs(depth) == {SubSeq(Deepest(depth), 1, n) : n \in 0..depth}

-----------------------------------------------------------------------------
(* The file system: what <directory>/package.json is.                      *)

NoEntry == [k |-> "none"]
DirEntry == [k |-> "dir"]          \* a directory named package.json
File(text, readable) == [k |-> "file", text |-> text, readable |-> readable]
\* A file this process may not read.  Nothing here can observe its text, so
\* the text is not kept.
Unreadable == File("", FALSE)

ManifestName == "package.json"

\* shell.test("-f", pkgfile): pkgfile exists and is a regular file.
ShellTestF(fsys, pkgfile) ==
    LET d == SubSeq(pkgfile, 1, Len(pkgfile) - 1) IN
    /\ Len(pkgfile) > 0
    /\ pkgfile[Len(pkgfile)] = ManifestName
    /\ d \in DOMAIN fsys
    /\ fsys[d].k = "file"

\* Manifest texts the environment may write.
TextExample ==
    "{\"dependencies\":{\"a\":\"^1.0.0\"},\"devDependencies\":{\"b\":\"^2.0.0\"}}"
TextCollide ==
    "{\"dependencies\":{\"a\":\"^1.0.0\"},\"devDependencies\":{\"a\":\"^2.0.0\"}}"
TextArray == "{\"dependencies\":[\"^1.0.0\"],\"devDependencies\":\"^2.0.0\"}"
TextNull == "null"
TextTruncated == "{\"dependencies\":{\"a\":"

Texts == {TextExample, TextCollide, TextArray, TextNull, TextTruncated}

\* JSON.parse(text): the value, or a SyntaxError.
JSONParse(text) ==
    CASE text = TextExample ->
            [ok |-> TRUE,
             value |-> Obj([k \in {"dependencies", "devDependencies"} |->
                            IF k = "dependencies"
                            THEN Obj([n \in {"a"} |-> Str("^1.0.0")])
                            ELSE Obj([n \in {"b"} |-> Str("^2.0.0")])])]
      [] text = TextCollide ->
            [ok |-> TRUE,
             value |-> Obj([k \in {"dependencies", "devDependencies"} |->
                            IF k = "dependencies"
                            THEN Obj([n \in {"a"} |-> Str("^1.0.0")])
                            ELSE Obj([n \in {"a"} |-> Str("^2.0.0")])])]
      [] text = TextArray ->
            [ok |-> TRUE,
             value |-> Obj([k \in {"dependencies", "devDependencies"} |->
                            IF k = "dependencies"
                            THEN Arr(<<Str("^1.0.0")>>)
                            ELSE Str("^2.0.0")])]
      [] text = TextNull -> [ok |-> TRUE, value |-> Null]
      [] OTHER -> [ok |-> FALSE, error |-> "SyntaxError"]

\* fs.readFileSync(p, "utf8"): the text, or the error it throws.
ReadFileSync(fsys, p) ==
    IF p.t # "string" THEN [ok |-> FALSE, error |-> "TypeError"]
    ELSE LET d == SubSeq(p.path, 1, Len(p.path) - 1) IN
         IF d \notin DOMAIN fsys \/ fsys[d].k = "none"
         THEN [ok |-> FALSE, error |-> "ENOENT"]
         ELSE IF fsys[d].k = "dir" THEN [ok |-> FALSE, error |-> "EISDIR"]
         ELSE IF ~fsys[d].readable THEN [ok |-> FALSE, error |-> "EACCES"]
         ELSE [ok |-> TRUE, text |-> fsys[d].text]

\* The try block of check: JSON.parse(fs.readFileSync(pkgJson, "utf8")).
ReadAndParse(fsys, p) ==
    LET r == ReadFileSync(fsys, p) IN
    IF r.ok THEN JSONParse(r.text) ELSE r

-----------------------------------------------------------------------------
(* How a call ends.                                                        *)

NoOutcome == [kind |-> "none"]
Returned(v) == [kind |-> "return", value |-> v]
Thrown(name, message) == [kind |-> "throw", error |-> name, message |-> message]

NotFoundMessage == "Could not find a package.json file. Run 'npm init' to create one."
ParseLogMessage ==
    "Could not read package.json file. Please check that the file contains valid JSON."

-----------------------------------------------------------------------------
(* findPackageJson                                                         *)

\* pkgfile = path.join(dir, "package.json")
PkgFile(d) == PathJoin(d, ManifestName)

\* A faulty variant of the move to the parent: dir is left where it is.
NextCandidateStays(d) == d

\* dir = path.join(dir, "..")
NextCandidate(d) == PathJoin(d, "..")

\* The loop condition: dir !== path.resolve(dir, "..")
LoopAgain(d) == d # PathResolve2(d, "..")

RECURSIVE FindPackageJson(_, _)
\* The whole do-while loop run from directory d on an unchanging file system:
\* the path it returns, or null.
FindPackageJson(fsys, d) ==
    IF ShellTestF(fsys, PkgFile(d)) THEN PathString(PkgFile(d))
    ELSE IF LoopAgain(NextCandidate(d)) THEN FindPackageJson(fsys, NextCandidate(d))
    ELSE Null

-----------------------------------------------------------------------------
(* check                                                                   *)

\* A faulty variant of the fresh map: the map of the previous call is kept.
NewDepsKept == deps

\* const deps = {};
NewDeps == EmptyProps

\* A faulty variant of the not-found guard: the file is read whatever was found.
AfterFindUnguarded(found) == "read"

\* if (!pkgJson) throw ...; otherwise go on to read the file.
AfterFind(found) == IF ~Truthy(found) THEN "notfound" ELSE "read"

\* A faulty variant of the catch clause: nothing is logged.
LogParseFailureSilent(l) == l

\* The catch clause's log.info(...)
LogParseFailure(l) == Append(l, ParseLogMessage)

\* A faulty variant of the catch clause's end: the failure is swallowed and an
\* empty report returned.
RethrowSwallowed(e) == Returned(Obj(EmptyProps))

\* throw new Error(e)
Rethrow(e) == Thrown("Error", e)

\* One of the two guarded merges:
\*   if (opt[key] && typeof fileJson[key] === "object") Object.assign(deps, fileJson[key])
\* Reading a property of null throws a TypeError.
MergeScope(d, o, fj, key) ==
    IF ~Truthy(GetProp(o, key)) THEN [ok |-> TRUE, deps |-> d]
    ELSE IF fj.t \in {"null", "undefined"} THEN [ok |-> FALSE, error |-> "TypeError"]
    ELSE IF TypeOf(GetProp(fj, key)) = "object"
         THEN [ok |-> TRUE, deps |-> ObjectAssign(d, GetProp(fj, key))]
    ELSE [ok |-> TRUE, deps |-> d]

\* Both merges in the code's order: devDependencies, then dependencies.
MergeDeps(d, o, fj) ==
    IF o.t \in {"null", "undefined"} THEN [ok |-> FALSE, error |-> "TypeError"]
    ELSE LET dev == MergeScope(d, o, fj, "devDependencies") IN
         IF ~dev.ok THEN dev ELSE MergeScope(dev.deps, o, fj, "dependencies")

\* deps[pkg]
DepOf(d, pkg) == IF pkg \in DOMAIN d THEN d[pkg] ELSE Undefined

\* Object.keys(packages).reduce(...): status[pkg] = deps[pkg] && semver.satisfies().
\* The file binds no `semver`, so evaluating the right operand throws a
\* ReferenceError; it is evaluated for every pkg whose deps[pkg] is truthy.
Reduce(pk, d) ==
    IF \E pkg \in DOMAIN OwnProps(pk) : Truthy(DepOf(d, pkg))
    THEN Thrown("ReferenceError", "semver is not defined")
    ELSE Returned(Obj([pkg \in DOMAIN OwnProps(pk) |-> DepOf(d, pkg)]))

\* The options object checkDeps builds.
CheckDepsOpt(rootDir) ==
    Obj([k \in {"dependencies", "startDir"} |->
            IF k = "dependencies" THEN Bool(TRUE) ELSE rootDir])

\* The options object checkDevDeps builds.
CheckDevDepsOpt == Obj([k \in {"devDependencies"} |-> Bool(TRUE)])

\* The argument check passes to findPackageJson.
StartDirOf(o) == IF Truthy(o) THEN GetProp(o, "startDir") ELSE Undefined

\* check run to its end on an unchanging file system.
CheckOutcome(fsys, wd, pk, o) ==
    LET found == FindPackageJson(fsys, ResolveStart(StartDirOf(o), wd))
        parsed == ReadAndParse(fsys, found)
        merged == MergeDeps(EmptyProps, o, parsed.value)
    IN  IF AfterFind(found) = "notfound" THEN Thrown("Error", NotFoundMessage)
        ELSE IF ~parsed.ok THEN Rethrow(parsed.error)
        ELSE IF ~merged.ok THEN Thrown(merged.error, "")
        ELSE Reduce(pk, merged.deps)

-----------------------------------------------------------------------------
(* checkPackageJson and installSyncSaveDev                                 *)

\* A faulty variant of the double negation: a single one.
CheckPackageJsonResultNegated(found) == Bool(~Truthy(found))

\* return !!findPackageJson(startDir)
CheckPackageJsonResult(found) == Bool(Truthy(found))

RECURSIVE JoinWith(_, _)
\* Array.prototype.join(sep)
JoinWith(elems, sep) ==
    IF elems = <<>> THEN ""
    ELSE IF Len(elems) = 1 THEN elems[1]
    ELSE elems[1] \o sep \o JoinWith(Tail(elems), sep)

\* The command line installSyncSaveDev runs.
InstallCommand(pk) ==
    "npm i --save-dev " \o (IF pk.t = "array" THEN JoinWith(pk.elems, " ") ELSE pk.s)

-----------------------------------------------------------------------------
(* Inputs.                                                                 *)

\* Starting directories a caller may pass: none, any directory of the tree
\* as an absolute path, or the relative path "..".
StartDirs == {Undefined} \cup {Path(TRUE, d) : d \in DOMAIN fs}
                         \cup {Path(FALSE, <<"..">>)}

\* Absolute starting directories, or none.
RootDirs == {Undefined} \cup {Path(TRUE, d) : d \in DOMAIN fs}

\* Requests: package name -> requested range.
RequestAB == Obj([n \in {"a", "b"} |-> IF n = "a" THEN Str("^1.0.0") ELSE Str("^2.0.0")])
RequestC == Obj([n \in {"c"} |-> Str("^1.0.0")])
Requests == {RequestAB, RequestC}

\* Options of a direct call of check that the two wrappers do not build: no
\* options at all, both scopes, neither scope.
BothScopesOpt == Obj([k \in {"dependencies", "devDependencies"} |-> Bool(TRUE)])
NoScopeOpt == Obj(EmptyProps)
CheckOpts == {Undefined, BothScopesOpt, NoScopeOpt}

\* Arguments of installSyncSaveDev.
InstallArgs == {Str("a"), Arr(<<"a", "b@1">>)}

-----------------------------------------------------------------------------
(* The calls.  A call begins when the previous one has ended.              *)

\* Entry of a call whose first step is findPackageJson(sd).
Begin(o, sd, pk, options) ==
    /\ pc = "done"
    /\ op' = o
    /\ pc' = "loop"
    /\ start' = ResolveStart(sd, cwd)
    /\ dir' = ResolveStart(sd, cwd)
    /\ packages' = pk
    /\ opt' = options
    /\ pkgJson' = Undefined
    /\ fileJson' = Undefined
    /\ caught' = ""
    /\ deps' = NewDeps
    /\ outcome' = NoOutcome
    /\ probes' = <<>>
    /\ reads' = <<>>
    /\ logs' = <<>>
    /\ execs' = <<>>
    /\ fsTouched' = FALSE
    /\ UNCHANGED <<fs, cwd>>

CallFindPackageJson ==
    \E sd \in StartDirs : Begin("findPackageJson", sd, Undefined, Undefined)

CallCheckPackageJson ==
    \E sd \in StartDirs : Begin("checkPackageJson", sd, Undefined, Undefined)

CallCheck ==
    \E pk \in Requests, o \in CheckOpts : Begin("check", StartDirOf(o), pk, o)

CallCheckDeps ==
    \E pk \in Requests, rootDir \in RootDirs :
        Begin("check", StartDirOf(CheckDepsOpt(rootDir)), pk, CheckDepsOpt(rootDir))

CallCheckDevDeps ==
    \E pk \in Requests :
        Begin("check", StartDirOf(CheckDevDepsOpt), pk, CheckDevDepsOpt)

\* installSyncSaveDev is one blocking shell.exec.
InstallSyncSaveDev ==
    \E pk \in InstallArgs :
        /\ pc = "done"
        /\ op' = "installSyncSaveDev"
        /\ pc' = "done"
        /\ start' = Root
        /\ dir' = Root
        /\ packages' = pk
        /\ opt' = Undefined
        /\ pkgJson' = Undefined
        /\ fileJson' = Undefined
        /\ caught' = ""
        /\ deps' = EmptyProps
        /\ outcome' = Returned(Undefined)
        /\ probes' = <<>>
        /\ reads' = <<>>
        /\ logs' = <<>>
        /\ execs' = <<InstallCommand(pk)>>
        /\ fsTouched' = FALSE
        /\ UNCHANGED <<fs, cwd>>

\* One iteration of findPackageJson's do-while loop: the probe, then either
\* the return of pkgfile or the move to the parent and the loop condition.
FindIterate ==
    /\ pc = "loop"
    /\ probes' = Append(probes, PkgFile(dir))
    /\ IF ~ShellTestF(fs, PkgFile(dir))
       THEN /\ dir' = NextCandidate(dir)
            /\ IF LoopAgain(NextCandidate(dir))
               THEN pc' = "loop" /\ pkgJson' = pkgJson
               ELSE pc' = "returned" /\ pkgJson' = Null
       ELSE /\ dir' = dir
            /\ pc' = "returned"
            /\ pkgJson' = PathString(PkgFile(dir))
    /\ UNCHANGED <<fs, cwd, op, start, packages, opt, fileJson, caught, deps,
                   outcome, reads, logs, execs, fsTouched>>

\* findPackageJson called on its own hands its result to the caller.
FindPackageJsonReturn ==
    /\ op = "findPackageJson"
    /\ pc = "returned"
    /\ outcome' = Returned(pkgJson)
    /\ pc' = "done"
    /\ UNCHANGED <<fs, cwd, op, start, packages, opt, dir, pkgJson, fileJson,
                   caught, deps, probes, reads, logs, execs, fsTouched>>

CheckPackageJsonReturn ==
    /\ op = "checkPackageJson"
    /\ pc = "returned"
    /\ outcome' = Returned(CheckPackageJsonResult(pkgJson))
    /\ pc' = "done"
    /\ UNCHANGED <<fs, cwd, op, start, packages, opt, dir, pkgJson, fileJson,
                   caught, deps, probes, reads, logs, execs, fsTouched>>

\* check, lines 75-77.
CheckFound ==
    /\ op = "check"
    /\ pc = "returned"
    /\ IF AfterFind(pkgJson) = "notfound"
       THEN outcome' = Thrown("Error", NotFoundMessage) /\ pc' = "done"
       ELSE outcome' = outcome /\ pc' = "read"
    /\ UNCHANGED <<fs, cwd, op, start, packages, opt, dir, pkgJson, fileJson,
                   caught, deps, probes, reads, logs, execs, fsTouched>>

\* check, the try block of lines 79-81.
CheckRead ==
    /\ op = "check"
    /\ pc = "read"
    /\ reads' = Append(reads, [path |-> pkgJson, result |-> ReadFileSync(fs, pkgJson)])
    /\ IF ReadAndParse(fs, pkgJson).ok
       THEN /\ fileJson' = ReadAndParse(fs, pkgJson).value
            /\ caught' = caught
            /\ pc' = "merge"
       ELSE /\ fileJson' = fileJson
            /\ caught' = ReadAndParse(fs, pkgJson).error
            /\ pc' = "catch"
    /\ UNCHANGED <<fs, cwd, op, start, packages, opt, dir, pkgJson, deps,
                   outcome, probes, logs, execs, fsTouched>>

\* check, line 82.
CheckLog ==
    /\ op = "check"
    /\ pc = "catch"
    /\ logs' = LogParseFailure(logs)
    /\ pc' = "rethrow"
    /\ UNCHANGED <<fs, cwd, op, start, packages, opt, dir, pkgJson, fileJson,
                   caught, deps, outcome, probes, reads, execs, fsTouched>>

\* check, line 83.
CheckRethrow ==
    /\ op = "check"
    /\ pc = "rethrow"
    /\ outcome' = Rethrow(caught)
    /\ pc' = "done"
    /\ UNCHANGED <<fs, cwd, op, start, packages, opt, dir, pkgJson, fileJson,
                   caught, deps, probes, reads, logs, execs, fsTouched>>

\* check, lines 86-91.
CheckMerge ==
    /\ op = "check"
    /\ pc = "merge"
    /\ IF MergeDeps(deps, opt, fileJson).ok
       THEN /\ deps' = MergeDeps(deps, opt, fileJson).deps
            /\ outcome' = outcome
            /\ pc' = "reduce"
       ELSE /\ deps' = deps
            /\ outcome' = Thrown(MergeDeps(deps, opt, fileJson).error, "")
            /\ pc' = "done"
    /\ UNCHANGED <<fs, cwd, op, start, packages, opt, dir, pkgJson, fileJson,
                   caught, probes, reads, logs, execs, fsTouched>>

\* check, lines 92-95.
CheckReduce ==
    /\ op = "check"
    /\ pc = "reduce"
    /\ outcome' = Reduce(packages, deps)
    /\ pc' = "done"
    /\ UNCHANGED <<fs, cwd, op, start, packages, opt, dir, pkgJson, fileJson,
                   caught, deps, probes, reads, logs, execs, fsTouched>>

-----------------------------------------------------------------------------
(* The environment: other processes change the file system at any time.    *)

callVars == <<cwd, op, pc, start, packages, opt, dir, pkgJson, fileJson, caught,
              deps, outcome, probes, reads, logs, execs>>

\* A package.json is created or overwritten with one of `texts`.
EnvWriteFile(texts) ==
    \E d \in DOMAIN fs, t \in texts :
        /\ fs[d] # File(t, TRUE)
        /\ fs[d].k # "dir"
        /\ fs' = [fs EXCEPT ![d] = File(t, TRUE)]
        /\ fsTouched' = TRUE
        /\ UNCHANGED callVars

\* A package.json (file or directory) is removed.
EnvUnlink ==
    \E d \in DOMAIN fs :
        /\ fs[d].k # "none"
        /\ fs' = [fs EXCEPT ![d] = NoEntry]
        /\ fsTouched' = TRUE
        /\ UNCHANGED callVars

\* A directory named package.json is created.
EnvMkdir ==
    \E d \in DOMAIN fs :
        /\ fs[d].k = "none"
        /\ fs' = [fs EXCEPT ![d] = DirEntry]
        /\ fsTouched' = TRUE
        /\ UNCHANGED callVars

\* A package.json loses its read permission.
EnvChmod ==
    \E d \in DOMAIN fs :
        /\ fs[d].k = "file"
        /\ fs[d].readable
        /\ fs' = [fs EXCEPT ![d] = Unreadable]
        /\ fsTouched' = TRUE
        /\ UNCHANGED callVars

-----------------------------------------------------------------------------
(* Specifications.                                                         *)

Idle ==
    /\ op = "none"
    /\ pc = "done"
    /\ start = Root
    /\ dir = Root
    /\ packages = Undefined
    /\ opt = Undefined
    /\ pkgJson = Undefined
    /\ fileJson = Undefined
    /\ caught = ""
    /\ deps = EmptyProps
    /\ outcome = NoOutcome
    /\ probes = <<>>
    /\ reads = <<>>
    /\ logs = <<>>
    /\ execs = <<>>
    /\ fsTouched = FALSE

\* The search alone, on a deep tree whose manifests all have the same text.
InitLocate ==
    /\ fs \in [Dirs(MaxDepth) -> {NoEntry, DirEntry, File(TextExample, TRUE)}]
    /\ cwd \in Dirs(MaxDepth)
    /\ Idle

NextLocate ==
    \/ CallFindPackageJson
    \/ CallCheckPackageJson
    \/ FindIterate
    \/ FindPackageJsonReturn
    \/ CheckPackageJsonReturn
    \/ InstallSyncSaveDev
    \/ EnvWriteFile({TextExample})
    \/ EnvUnlink
    \/ EnvMkdir

SpecLocate == InitLocate /\ [][NextLocate]_vars

\* The control thread is never suspended for ever: a call in progress takes
\* its next step.
FairLocate ==
    /\ SpecLocate
    /\ WF_vars(FindIterate)
    /\ WF_vars(FindPackageJsonReturn)
    /\ WF_vars(CheckPackageJsonReturn)

\* The dependency check, on a shallow tree with manifests of every text.
InitCheck ==
    /\ fs \in [Dirs(CheckDepth) -> {NoEntry} \cup {File(t, TRUE) : t \in Texts}]
    /\ cwd = Deepest(CheckDepth)
    /\ Idle

NextCheck ==
    \/ CallCheck
    \/ CallCheckDeps
    \/ CallCheckDevDeps
    \/ CallCheckPackageJson
    \/ FindIterate
    \/ CheckPackageJsonReturn
    \/ CheckFound
    \/ CheckRead
    \/ CheckLog
    \/ CheckRethrow
    \/ CheckMerge
    \/ CheckReduce
    \/ InstallSyncSaveDev
    \/ EnvWriteFile(Texts)
    \/ EnvUnlink
    \/ EnvMkdir
    \/ EnvChmod

SpecCheck == InitCheck /\ [][NextCheck]_vars

-----------------------------------------------------------------------------
(* Vocabulary of the properties.                                           *)

\* The ancestor chain of d: d itself first, the root last.
Chain(d) == {SubSeq(d, 1, n) : n \in 0..Len(d)}

\* Directory d holds a manifest: a regular file named package.json.
HasManifest(fsys, d) == d \in DOMAIN fsys /\ fsys[d].k = "file"

\* The manifest path of the nearest directory on d's ancestor chain (d first,
\* the root last) that holds a manifest; null when none does.
NearestManifest(fsys, d) ==
    LET holders == {a \in Chain(d) : HasManifest(fsys, a)} IN
    IF holders = {} THEN Null
    ELSE LET nearest == CHOOSE a \in holders : \A b \in holders : Len(b) <= Len(a)
         IN  PathString(Append(nearest, ManifestName))

\* The directory a probed path lies in, and a directory's parent.
ProbedDir(pkgfile) == SubSeq(pkgfile, 1, Len(pkgfile) - 1)
ParentDir(d) == SubSeq(d, 1, Len(d) - 1)

\* A declared caret range satisfies a requested one when it admits no version
\* the requested range excludes; for ^1.0.0 and ^2.0.0 that is equality.
RangeSatisfies(declared, requested) == declared = requested

\* A search (on its own or inside checkPackageJson) is the current call.
Locating == op \in {"findPackageJson", "checkPackageJson"}

\* check has read a manifest and parsed it.
Parsed == op = "check" /\ fileJson # Undefined

\* check has built its merged dependency map.
Merged == Parsed /\ pc \in {"reduce", "done"} /\ MergeDeps(EmptyProps, opt, fileJson).ok

\* check has built its merged map from a manifest that is a JSON object.
MergedManifest == Merged /\ fileJson.t = "object"

\* check read the manifest, and its text is not valid JSON.
InvalidRead ==
    /\ op = "check"
    /\ reads # <<>>
    /\ reads[1].result.ok
    /\ ~JSONParse(reads[1].result.text).ok

\* check found a manifest, and the read of it failed.
ReadFailed == op = "check" /\ reads # <<>> /\ ~reads[1].result.ok

\* The entries a scope field of the manifest contributes: its own when it is
\* a mapping, none otherwise.
ScopeEntries(fj, key) ==
    IF GetProp(fj, key).t = "object" THEN GetProp(fj, key).props ELSE EmptyProps

\* The merged map the scopes requested in `o` call for.
ExpectedMerged(o, fj) ==
    LET dev == IF Truthy(GetProp(o, "devDependencies"))
               THEN ScopeEntries(fj, "devDependencies") ELSE EmptyProps
        direct == IF Truthy(GetProp(o, "dependencies"))
                  THEN ScopeEntries(fj, "dependencies") ELSE EmptyProps
    IN  [k \in DOMAIN dev \cup DOMAIN direct |->
            IF k \in DOMAIN direct THEN direct[k] ELSE dev[k]]

-----------------------------------------------------------------------------
(* Properties.                                                             *)

\* C1: on a file system left alone during the call, findPackageJson returns
\* the manifest path of the nearest directory of the start's ancestor chain
\* (start first, root last) that holds a manifest, and null exactly when no
\* directory of the chain, the root included, holds one.
C1_ReturnsNearestManifest ==
    (op = "findPackageJson" /\ pc = "done" /\ ~fsTouched)
        => outcome = Returned(NearestManifest(fs, start))

\* C2: when the manifest is found and parses to an object and options are
\* given, check returns a report in which a requested package is true if and
\* only if the merged map declares it with a range satisfying the requested one.
C2_ReportFollowsRanges ==
    (MergedManifest /\ pc = "done")
        => /\ outcome.kind = "return"
           /\ \A p \in DOMAIN packages.props :
                (outcome.value.props[p] = Bool(TRUE))
                    <=> /\ p \in DOMAIN deps
                        /\ deps[p].t = "string"
                        /\ RangeSatisfies(deps[p].s, packages.props[p].s)

\* C3: with a manifest that is a JSON object and options given, a requested
\* package that the merged map lacks is reported as the
\* boolean false; when every requested package is lacking the call returns
\* its report and raises nothing.
C3_AbsentIsFalse ==
    (MergedManifest /\ pc = "done")
        => /\ (\A p \in DOMAIN packages.props : p \notin DOMAIN deps)
                => outcome.kind = "return"
           /\ outcome.kind = "return"
                => \A p \in DOMAIN packages.props :
                        p \notin DOMAIN deps => outcome.value.props[p] = Bool(FALSE)

\* C4: the merged map check uses is the devDependencies entries when only
\* that scope is requested, the dependencies entries when only that one is,
\* their union with the dependencies range winning when both are; a scope
\* field that is absent or is no mapping contributes nothing.
C4_MergedMapIsRequestedScopes ==
    Merged => deps = ExpectedMerged(opt, fileJson)

\* C5: when the manifest's text is not valid JSON, check logs exactly one
\* informational message, logs it before the error reaches the caller, ends
\* by throwing the wrapped parse error, and returns no report.
C5_ParseFailureLoggedThenRaised ==
    InvalidRead
        => /\ pc \in {"catch", "rethrow", "done"}
           /\ pc = "catch" => logs = <<>> /\ outcome = NoOutcome
           /\ pc = "rethrow" => logs = <<ParseLogMessage>> /\ outcome = NoOutcome
           /\ pc = "done" => /\ logs = <<ParseLogMessage>>
                             /\ outcome = Thrown("Error", "SyntaxError")
           /\ fileJson = Undefined
           /\ deps = EmptyProps

C5_Witness ==
    InvalidRead /\ pc = "done" /\ outcome.kind = "throw" /\ Len(logs) = 1

\* C6: when the search finds no manifest, check throws the not-found error
\* and, in that call, reads no file, logs nothing and returns no report.
C6_NotFoundRaisedWithoutRead ==
    (op = "check" /\ pkgJson = Null)
        => /\ pc \in {"returned", "done"}
           /\ reads = <<>>
           /\ logs = <<>>
           /\ execs = <<>>
           /\ pc = "returned" => outcome = NoOutcome
           /\ pc = "done" => outcome = Thrown("Error", NotFoundMessage)

C6_Witness ==
    op = "check" /\ pkgJson = Null /\ pc = "done" /\ outcome.kind = "throw"

\* C7: checkPackageJson returns true if and only if findPackageJson from the
\* same directory returns a path, and no step of either call changes the file
\* system, reads a file, logs or starts a process.
C7_HasManifestIffLocated ==
    [][ (Locating' /\ <<op, pc, probes, outcome>>' # <<op, pc, probes, outcome>>)
            => /\ fs' = fs
               /\ reads' = <<>>
               /\ logs' = <<>>
               /\ execs' = <<>>
               /\ (op' = "checkPackageJson" /\ pc' = "done" /\ ~fsTouched')
                    => outcome' = Returned(Bool(FindPackageJson(fs', start') # Null))
      ]_vars

C7_Witness ==
    /\ op = "checkPackageJson"
    /\ pc = "done"
    /\ ~fsTouched
    /\ outcome = Returned(Bool(TRUE))
    /\ FindPackageJson(fs, start) # Null
    /\ Len(probes) > 1

\* The probes of a search so far: the first is in the starting directory,
\* each later one in the parent of the directory probed just before it, and
\* there are no more of them than directories on the chain from the starting
\* directory to the root.
UpwardAndBounded ==
    (Locating /\ probes # <<>>)
        => /\ ProbedDir(probes[1]) = start
           /\ \A i \in 2..Len(probes) :
                /\ ProbedDir(probes[i]) = ParentDir(ProbedDir(probes[i - 1]))
                /\ Len(ProbedDir(probes[i])) < Len(ProbedDir(probes[i - 1]))
           /\ Len(probes) <= Cardinality(Chain(start))

\* C8: the upward search terminates, every directory it probes after the
\* first is the parent of the one probed just before, and it makes at most
\* one probe per directory on the chain from the starting directory to the root.
C8_SearchUpwardBoundedTerminates ==
    /\ []UpwardAndBounded
    /\ (pc = "loop") ~> (pc = "returned")

C8_Witness ==
    /\ op = "findPackageJson"
    /\ pc = "done"
    /\ Len(start) = MaxDepth
    /\ Len(probes) = MaxDepth

\* C9: the outcome of a call that ran on a file system left alone since the
\* call began is the function of its arguments, the working directory and
\* that file system; nothing of an earlier call enters it.
C9_OutcomeIsFunctionOfCallAndFs ==
    (pc = "done" /\ ~fsTouched)
        => /\ op = "check" => outcome = CheckOutcome(fs, cwd, packages, opt)
           /\ op = "checkPackageJson"
                => outcome = Returned(Bool(FindPackageJson(fs, start) # Null))

C9_Witness ==
    /\ op = "check"
    /\ pc = "done"
    /\ ~fsTouched
    /\ outcome.kind = "return"
    /\ HasManifest(fs, start)

\* C10: when the manifest the search found cannot be read (it was removed,
\* replaced or made unreadable in between), check logs the one message and throws; it
\* builds no report, reads once and probes no directory again.
C10_FailedReadRaisesOnce ==
    ReadFailed
        => /\ pc \in {"catch", "rethrow", "done"}
           /\ Len(reads) = 1
           /\ probes[Len(probes)] = pkgJson.path
           /\ \A i, j \in 1..Len(probes) : probes[i] = probes[j] => i = j
           /\ fileJson = Undefined
           /\ deps = EmptyProps
           /\ pc = "catch" => logs = <<>> /\ outcome = NoOutcome
           /\ pc = "rethrow" => logs = <<ParseLogMessage>> /\ outcome = NoOutcome
           /\ pc = "done" => /\ logs = <<ParseLogMessage>>
                             /\ outcome = Thrown("Error", reads[1].result.error)

C10_Witness ==
    /\ ReadFailed
    /\ pc = "done"
    /\ fsTouched
    /\ reads[1].result.error = "ENOENT"
    /\ outcome.kind = "throw"
====
